---- MODULE Spec2Model ----
(***************************************************************************)
(* Voxel grid engine: the process-wide undo/redo history manager            *)
(* (app/services/history_management_service.py), the edit and project      *)
(* routers that drive it (app/routers/edit_router.py, project_router.py)   *)
(* and the part of the voxel store they read and write                     *)
(* (app/services/model_structure_service.py, model_tracking_service.py,    *)
(* model_editing_service.py), the store's own operations (SpecDB) and the  *)
(* partitioner (app/services/partition_manager.py, SpecPart).              *)
(*                                                                         *)
(* Python lists are sequences; the top of a stack is the right end         *)
(* (list.append / list.pop()), the oldest entry is index 1 (list.pop(0)).  *)
(* An optional value is a sequence of length 0 (None) or 1.                *)
(***************************************************************************)
EXTENDS Integers, Sequences, FiniteSets, TLC

(***************************************************************************)
(* Bounds                                                                  *)
(***************************************************************************)
\* history_management_service.py:15 sets MAX_HISTORY_SIZE = 100.  The model
\* keeps the name and the role (capacity N of the history stack) and scales
\* the value down so that the capacity case is reached.
MAX_HISTORY_SIZE == 3

\* longest `voxels` list of an edit request
MaxTargets == 2

(***************************************************************************)
(* Values                                                                  *)
(***************************************************************************)
None == <<>>
Some(v) == <<v>>

\* schema defaults of a freshly inserted row (model_structure_service.py:23-26)
DEFAULT_MATERIAL == 1
DEFAULT_MAGNET == 0

\* Python None / SQL NULL where a magnetization or material number is expected:
\* a number that no magnitude, angle or material id of the model takes
NULL == -1

\* grid cells (ix, iy, iz) that requests can name
Cells == { <<0, 0, 0>>, <<1, 0, 0>> }

\* material ids and magnetization triples that requests can carry
MaterialIDs == { 3 }
Magnetizations == { <<1, 2, 3>> }

\* models.py:56-73 -- ModelDelta(old_voxels, new_voxels)
ModelDelta(old_voxels, new_voxels) ==
    [old_voxels |-> old_voxels, new_voxels |-> new_voxels]

\* a voxel as the history manager's tests and get_full_voxels write it:
\* (ix, iy, iz, material, magnet_magnitude, magnet_polar, magnet_azimuth)
FullVoxel(c, material, mm, mp, ma) ==
    <<c[1], c[2], c[3], material, mm, mp, ma>>

\* the deltas of test_capacity_limit_drops_oldest_change: the i-th one takes
\* voxel (1,1,1) from material i to material i+1.  The pool holds more deltas
\* than the history stack can, so that eviction happens among distinct deltas.
TestDelta(i) ==
    ModelDelta(<< FullVoxel(<<1, 1, 1>>, i, 1, 1, 1) >>,
               << FullVoxel(<<1, 1, 1>>, i + 1, 1, 1, 1) >>)

TestDeltas == { TestDelta(i) : i \in 1..(MAX_HISTORY_SIZE + 2) }

(***************************************************************************)
(* Storage layout: one project directory holding partition files           *)
(***************************************************************************)
\* the (project_name, partition_name) pairs requests can name: the two
\* partitions on disk, a partition that is not there, a project that is not
Targets == { << "A", "p1" >>, << "A", "p2" >>, << "A", "p9" >>, << "Z", "p1" >> }

\* PROJECT_STORAGE_DIR / project_name
ProjectPath(project_name) == << project_name >>
\* project_path / partition_name
PartitionPath(project_name, partition_name) == << project_name, partition_name >>

\* what exists on disk: project "A" with the partition files p1 and p2
ExistingProjects == { ProjectPath("A") }
ExistingPartitions == { PartitionPath("A", "p1"), PartitionPath("A", "p2") }

\* a voxels row: x, y, z and the four property columns
Row(c, material, mm, mp, ma) ==
    [x |-> c[1], y |-> c[2], z |-> c[3], material |-> material,
     magnet_magnitude |-> mm, magnet_polar |-> mp, magnet_azimuth |-> ma]

\* a row inserted by upsert_many (only ix,iy,iz,x,y,z given): column defaults
DefaultRow(c) ==
    Row(c, DEFAULT_MATERIAL, DEFAULT_MAGNET, DEFAULT_MAGNET, DEFAULT_MAGNET)

VARIABLES
    history_stack,  \* history_management_service.history_stack
    redo_stack,     \* history_management_service.redo_stack
    history_ctx,    \* ghost: partition path each history entry was recorded for
    redo_ctx,       \* ghost: the same for the redo stack
    db,             \* partition path -> voxels table (cell -> row)
    request,        \* the last call or HTTP request and its arguments
    result,         \* its outcome: status and returned value
    prev_history,   \* ghost: history_stack before the last call
    prev_redo,      \* ghost: redo_stack before the last call
    prev_ctx,       \* ghost: partitions of the deltas stored before the last call
    prev_db,        \* ghost: db before the last call
    recorded,       \* ghost: the deltas passed to record_change so far, tracked
                    \*        while no delta has been passed twice
    distinct,       \* ghost: no delta has been passed to record_change twice
    PARTITIONS,     \* partition_manager.PARTITIONS
    job             \* where a get_partitions call that other requests can
                    \* interleave with stands: its position, the voxel_range
                    \* tuples still to visit, count and partition_size

vars == << history_stack, redo_stack, history_ctx, redo_ctx, db,
           request, result, prev_history, prev_redo, prev_ctx, prev_db,
           recorded, distinct, PARTITIONS, job >>

Range(s) == { s[i] : i \in 1..Len(s) }
Last(s) == s[Len(s)]
Front(s) == SubSeq(s, 1, Len(s) - 1)
Reverse(s) == [i \in 1..Len(s) |-> s[Len(s) + 1 - i]]
NoDuplicates(s) == \A i, j \in 1..Len(s) : i # j => s[i] # s[j]


(***************************************************************************)
(* History manager: history_management_service.py                          *)
(* (history_manager.py holds the same logic as a class)                    *)
(* The operators work on a pair of stacks [history, redo]; the actions     *)
(* apply them to the module-level stacks and, in step, to the ghost stacks *)
(* of partition tags.                                                      *)
(***************************************************************************)
Stacks == [history |-> history_stack, redo |-> redo_stack]
CtxStacks == [history |-> history_ctx, redo |-> redo_ctx]

\* variants of record_change with one slip each
\* ... the capacity check is missing
record_change_never_evicts(S, delta) ==
    [history |-> Append(S.history, delta), redo |-> << >>]

\* ... pop() instead of pop(0): the entry just pushed is dropped
record_change_evicts_newest(S, delta) ==
    LET appended == Append(S.history, delta)
    IN  [history |-> IF Len(appended) > MAX_HISTORY_SIZE
                     THEN Front(appended)
                     ELSE appended,
         redo    |-> << >>]

\* ... redo_stack.clear() is missing
record_change_keeps_redo(S, delta) ==
    LET appended == Append(S.history, delta)
    IN  [history |-> IF Len(appended) > MAX_HISTORY_SIZE
                     THEN Tail(appended)
                     ELSE appended,
         redo    |-> S.redo]

\* record_change(delta): append; over capacity pop(0); clear the redo stack
record_change(S, delta) ==
    LET appended == Append(S.history, delta)
    IN  [history |-> IF Len(appended) > MAX_HISTORY_SIZE
                     THEN Tail(appended)
                     ELSE appended,
         redo    |-> << >>]

\* variants of undo_request with one slip each
\* ... pop(0) instead of pop(): the oldest entry is undone
undo_request_pops_oldest(S) ==
    IF S.history = << >>
    THEN [history |-> S.history, redo |-> S.redo,
          raised |-> TRUE, delta |-> None]
    ELSE [history |-> Tail(S.history),
          redo    |-> Append(S.redo, Head(S.history)),
          raised  |-> FALSE, delta |-> Some(Head(S.history))]

\* ... the redo stack is cleared before the exception is raised
undo_request_clears_on_empty(S) ==
    IF S.history = << >>
    THEN [history |-> S.history, redo |-> << >>,
          raised |-> TRUE, delta |-> None]
    ELSE [history |-> Front(S.history),
          redo    |-> Append(S.redo, Last(S.history)),
          raised  |-> FALSE, delta |-> Some(Last(S.history))]

\* ... history_stack[-1] instead of history_stack.pop(): the top stays
undo_request_keeps_top(S) ==
    IF S.history = << >>
    THEN [history |-> S.history, redo |-> S.redo,
          raised |-> TRUE, delta |-> None]
    ELSE [history |-> S.history,
          redo    |-> Append(S.redo, Last(S.history)),
          raised  |-> FALSE, delta |-> Some(Last(S.history))]

\* undo_request(): raise on empty history, else pop() the top of history,
\* append it to redo and return it
undo_request(S) ==
    IF S.history = << >>
    THEN [history |-> S.history, redo |-> S.redo,
          raised |-> TRUE, delta |-> None]
    ELSE [history |-> Front(S.history),
          redo    |-> Append(S.redo, Last(S.history)),
          raised  |-> FALSE, delta |-> Some(Last(S.history))]

\* variants of redo_request with one slip each
\* ... pop(0) instead of pop(): the delta undone first is redone
redo_request_pops_oldest(S) ==
    IF S.redo = << >>
    THEN [history |-> S.history, redo |-> S.redo,
          raised |-> TRUE, delta |-> None]
    ELSE [history |-> Append(S.history, Head(S.redo)),
          redo    |-> Tail(S.redo),
          raised  |-> FALSE, delta |-> Some(Head(S.redo))]

\* ... redo_stack.pop() replaced by a read of the top
redo_request_keeps_top(S) ==
    IF S.redo = << >>
    THEN [history |-> S.history, redo |-> S.redo,
          raised |-> TRUE, delta |-> None]
    ELSE [history |-> Append(S.history, Last(S.redo)),
          redo    |-> S.redo,
          raised  |-> FALSE, delta |-> Some(Last(S.redo))]

\* ... history_stack.append(delta) is missing
redo_request_drops(S) ==
    IF S.redo = << >>
    THEN [history |-> S.history, redo |-> S.redo,
          raised |-> TRUE, delta |-> None]
    ELSE [history |-> S.history,
          redo    |-> Front(S.redo),
          raised  |-> FALSE, delta |-> Some(Last(S.redo))]

\* redo_request(): raise on empty redo, else pop() the top of redo,
\* append it to history and return it
redo_request(S) ==
    IF S.redo = << >>
    THEN [history |-> S.history, redo |-> S.redo,
          raised |-> TRUE, delta |-> None]
    ELSE [history |-> Append(S.history, Last(S.redo)),
          redo    |-> Front(S.redo),
          raised  |-> FALSE, delta |-> Some(Last(S.redo))]

\* clear_history(): clear both lists
clear_history(S) == [history |-> << >>, redo |-> << >>]

is_undo_empty(S) == S.history = << >>
is_redo_empty(S) == S.redo = << >>

(***************************************************************************)
(* Calls and requests                                                      *)
(***************************************************************************)
\* every call is logged with the same fields; the ones a call does not have
\* stay at their defaults
NoRequest ==
    [op |-> "none", project_name |-> "", partition_name |-> "",
     voxels |-> << >>, action |-> "", materialID |-> None,
     magnetization |-> None, delta |-> None, rows |-> << >>,
     partition_size |-> 0, layer_index |-> 0, path |-> << >>]

NoCtx == << >>

\* no get_partitions call is under way
NoJob == [pc |-> "idle", ranges |-> << >>, count |-> 0, partition_size |-> 0]

\* the ghost snapshot every call takes before it runs
Snapshot ==
    /\ prev_history' = history_stack
    /\ prev_redo' = redo_stack
    /\ prev_ctx' = Range(history_ctx) \cup Range(redo_ctx)
    /\ prev_db' = db

\* the ghost log of record_change's arguments
Log(delta) ==
    /\ distinct' = (distinct /\ delta \notin recorded)
    /\ recorded' = IF distinct' THEN recorded \cup {delta} ELSE {}

NoLog == UNCHANGED << recorded, distinct >>

SetStacks(S, C) ==
    /\ history_stack' = S.history
    /\ redo_stack' = S.redo
    /\ history_ctx' = C.history
    /\ redo_ctx' = C.redo

Init ==
    /\ history_stack = << >>
    /\ redo_stack = << >>
    /\ history_ctx = << >>
    /\ redo_ctx = << >>
    /\ db = [p \in ExistingPartitions |->
               IF p = PartitionPath("A", "p1")
               THEN [c \in { <<0, 0, 0>>, <<1, 0, 0>> } |-> DefaultRow(c)]
               ELSE [c \in { <<0, 0, 0>> } |-> DefaultRow(c)]]
    /\ request = NoRequest
    /\ result = [status |-> "none", value |-> None]
    /\ prev_history = << >>
    /\ prev_redo = << >>
    /\ prev_ctx = {}
    /\ prev_db = db
    /\ recorded = {}
    /\ distinct = TRUE
    /\ PARTITIONS = << >>
    /\ job = NoJob

\* direct calls of the history manager, as its unit tests make them
HM_record_change(delta) ==
    /\ Snapshot
    /\ SetStacks(record_change(Stacks, delta), record_change(CtxStacks, NoCtx))
    /\ request' = [NoRequest EXCEPT !.op = "record_change", !.delta = Some(delta)]
    /\ result' = [status |-> "ok", value |-> None]
    /\ Log(delta)
    /\ UNCHANGED << db, PARTITIONS, job >>

HM_undo_request ==
    LET S == undo_request(Stacks)
    IN  /\ Snapshot
        /\ SetStacks(S, undo_request(CtxStacks))
        /\ request' = [NoRequest EXCEPT !.op = "undo_request"]
        /\ result' = [status |-> IF S.raised THEN "EmptyHistoryException" ELSE "ok",
                      value |-> S.delta]
        /\ NoLog
        /\ UNCHANGED << db, PARTITIONS, job >>

HM_redo_request ==
    LET S == redo_request(Stacks)
    IN  /\ Snapshot
        /\ SetStacks(S, redo_request(CtxStacks))
        /\ request' = [NoRequest EXCEPT !.op = "redo_request"]
        /\ result' = [status |-> IF S.raised THEN "EmptyHistoryException" ELSE "ok",
                      value |-> S.delta]
        /\ NoLog
        /\ UNCHANGED << db, PARTITIONS, job >>

HM_clear_history ==
    /\ Snapshot
    /\ SetStacks(clear_history(Stacks), clear_history(CtxStacks))
    /\ request' = [NoRequest EXCEPT !.op = "clear_history"]
    /\ result' = [status |-> "ok", value |-> None]
    /\ NoLog
    /\ UNCHANGED << db, PARTITIONS, job >>

NextHM ==
    \/ \E delta \in TestDeltas : HM_record_change(delta)
    \/ HM_undo_request
    \/ HM_redo_request
    \/ HM_clear_history

SpecHM == Init /\ [][NextHM]_vars


(***************************************************************************)
(* Voxel store: model_structure_service.py (VoxelDB), read and written     *)
(* through model_tracking_service.py and model_editing_service.py.         *)
(* A voxels table is a function from the cells it holds to their rows.     *)
(***************************************************************************)
\* VoxelDB.get_properties: cur.fetchall() of the SELECT on the primary key,
\* a list with one row (material, magnitude, polar, azimuth) or no row
get_properties(tbl, c) ==
    IF c \in DOMAIN tbl
    THEN << << tbl[c].material, tbl[c].magnet_magnitude,
               tbl[c].magnet_polar, tbl[c].magnet_azimuth >> >>
    ELSE << >>

\* model_tracking_service.get_full_voxels: for each voxel takes
\* rows = get_properties(...) and builds (ix, iy, iz, rows[0], rows[1],
\* rows[2], rows[3]); indexing the row LIST past its end raises IndexError
get_full_voxels(tbl, voxels) ==
    IF \E i \in 1..Len(voxels) : Len(get_properties(tbl, voxels[i])) < 4
    THEN [raised |-> TRUE, value |-> << >>]
    ELSE [raised |-> FALSE,
          value |-> [i \in 1..Len(voxels) |->
                       LET rows == get_properties(tbl, voxels[i])
                       IN  << voxels[i][1], voxels[i][2], voxels[i][3],
                              rows[1], rows[2], rows[3], rows[4] >>]]

\* an UPDATE that sets the material and puts the magnetization columns back
\* to their defaults
set_material_resets_magnet(tbl, c, material_val) ==
    IF c \in DOMAIN tbl
    THEN [tbl EXCEPT ![c].material = material_val,
                     ![c].magnet_magnitude = DEFAULT_MAGNET,
                     ![c].magnet_polar = DEFAULT_MAGNET,
                     ![c].magnet_azimuth = DEFAULT_MAGNET]
    ELSE tbl

\* VoxelDB.set_material: UPDATE ... WHERE ix, iy, iz match (no row: no change)
set_material(tbl, c, material_val) ==
    IF c \in DOMAIN tbl
    THEN [tbl EXCEPT ![c].material = material_val]
    ELSE tbl

\* the property columns are declared NOT NULL (model_structure_service.py:
\* 23-26): an UPDATE that would put NULL in one of them on a row it matches
\* raises sqlite3.IntegrityError and changes nothing; an UPDATE that matches
\* no row has nothing to check
IntegrityError(tbl, c, values) ==
    c \in DOMAIN tbl /\ NULL \in Range(values)

\* VoxelDB.set_magnetization
set_magnetization(tbl, c, magnet_mag, mag_polar, mag_azi) ==
    IF c \in DOMAIN tbl
          /\ ~IntegrityError(tbl, c, << magnet_mag, mag_polar, mag_azi >>)
    THEN [tbl EXCEPT ![c].magnet_magnitude = magnet_mag,
                     ![c].magnet_polar = mag_polar,
                     ![c].magnet_azimuth = mag_azi]
    ELSE tbl

\* VoxelDB.set_properties
set_properties(tbl, c, material_val, magnet_mag, mag_polar, mag_azi) ==
    IF c \in DOMAIN tbl
          /\ ~IntegrityError(tbl, c, << material_val, magnet_mag,
                                        mag_polar, mag_azi >>)
    THEN [tbl EXCEPT ![c].material = material_val,
                     ![c].magnet_magnitude = magnet_mag,
                     ![c].magnet_polar = mag_polar,
                     ![c].magnet_azimuth = mag_azi]
    ELSE tbl

\* the (ix, iy, iz, x, y, z) of every stored voxel: SELECT ix, iy, iz, x, y, z
\* FROM voxels, as a set
ReadBack(tbl) ==
    { << c[1], c[2], c[3], tbl[c].x, tbl[c].y, tbl[c].z >> : c \in DOMAIN tbl }

\* one row of upsert_many's executemany: INSERT OR REPLACE INTO voxels
\* (ix, iy, iz, x, y, z); a row already stored under the key is deleted and
\* the new one takes the column defaults
insert_or_ignore(tbl, row) ==
    LET key == << row[1], row[2], row[3] >>
    IN  [c \in DOMAIN tbl \cup { key } |->
            IF c \in DOMAIN tbl THEN tbl[c]
            ELSE DefaultRow(<< row[4], row[5], row[6] >>)]

insert_or_replace(tbl, row) ==
    LET key == << row[1], row[2], row[3] >>
    IN  [c \in DOMAIN tbl \cup { key } |->
            IF c = key THEN DefaultRow(<< row[4], row[5], row[6] >>)
            ELSE tbl[c]]

\* x, y, z are declared NOT NULL (model_structure_service.py:20-22): a row
\* of a batch that gives None for one of them makes executemany raise
\* sqlite3.IntegrityError at that row
BadRow(row) == NULL \in { row[4], row[5], row[6] }

\* VoxelDB.upsert_many: the rows in list order, up to the first one that
\* raises.  What the call has written up to there stays in the open
\* transaction; VoxelDB.__exit__ calls close(), which commits it
\* (model_structure_service.py:143-151), whether the scope is left normally
\* or by the exception.
RECURSIVE upsert_many(_, _)
upsert_many(tbl, rows) ==
    IF rows = << >>
    THEN tbl
    ELSE IF BadRow(Head(rows))
    THEN tbl
    ELSE upsert_many(insert_or_replace(tbl, Head(rows)), Tail(rows))

\* VoxelDB.add_voxel(ix, iy, iz): builds the parameter tuple
\* (ix, iy, iz, x, y, z) from names x, y, z that are bound nowhere, which
\* raises NameError before the statement runs
add_voxel(tbl, c) == [raised |-> TRUE, tbl |-> tbl]

\* VoxelDB.delete_voxel: DELETE ... WHERE ix = ? AND iy = ? AND iz = ?
delete_voxel_whole_column(tbl, c) ==
    [k \in { k \in DOMAIN tbl : << k[2], k[3] >> # << c[2], c[3] >> } |-> tbl[k]]

delete_voxel(tbl, c) ==
    [k \in DOMAIN tbl \ { c } |-> tbl[k]]

\* models.Voxel.__init__: the class is a frozen dataclass with its own
\* __init__, whose first statement self.ix = ix raises FrozenInstanceError;
\* the check of the three magnetization arguments (lines 46-52) is not reached
Voxel(c, p, material, magnet_magnitude, magnet_polar, magnet_azimuth) ==
    [raised |-> TRUE, value |-> None]

\* model_editing_service.update_voxel_materials: set_material on each voxel
\* of the list in turn, committed when the VoxelDB scope is left
RECURSIVE update_voxel_materials(_, _, _)
update_voxel_materials(tbl, voxels, materialID) ==
    IF voxels = << >>
    THEN tbl
    ELSE update_voxel_materials(set_material(tbl, Head(voxels), materialID),
                                Tail(voxels), materialID)

\* model_editing_service.update_voxel_magnetization
RECURSIVE update_voxel_magnetization(_, _, _)
update_voxel_magnetization(tbl, voxels, magnetization) ==
    IF voxels = << >>
    THEN tbl
    ELSE update_voxel_magnetization(
             set_magnetization(tbl, Head(voxels), magnetization[1],
                               magnetization[2], magnetization[3]),
             Tail(voxels), magnetization)

\* sqlite3.connect in VoxelDB.__init__ opens (or creates) a file; on a
\* directory it raises OperationalError
VoxelDB_opens(d, db_path) == db_path \in DOMAIN d

\* model_editing_service.update_voxel_properties(db_path, voxels) is called by
\* update_history and is not part of the sources at hand: as the History
\* Manager's contract has it, it re-applies the material and magnetization of
\* every voxel of the list to the store at db_path.
RECURSIVE apply_voxel_properties(_, _)
apply_voxel_properties(tbl, voxels) ==
    IF voxels = << >>
    THEN tbl
    ELSE LET v == Head(voxels)
         IN  apply_voxel_properties(
                 set_properties(tbl, << v[1], v[2], v[3] >>,
                                v[4], v[5], v[6], v[7]),
                 Tail(voxels))

update_voxel_properties(d, db_path, voxels) ==
    IF VoxelDB_opens(d, db_path)
    THEN [raised |-> FALSE,
          db |-> [d EXCEPT ![db_path] = apply_voxel_properties(d[db_path], voxels)]]
    ELSE [raised |-> TRUE, db |-> d]

\* FIND_SURFACE: the (x, y, z) of every voxel for which one of the six
\* LEFT JOINs on a face neighbour found no row
Neighbours(c) ==
    { << c[1] + 1, c[2], c[3] >>, << c[1] - 1, c[2], c[3] >>,
      << c[1], c[2] + 1, c[3] >>, << c[1], c[2] - 1, c[3] >>,
      << c[1], c[2], c[3] + 1 >>, << c[1], c[2], c[3] - 1 >> }

find_surface_five_joins(tbl) ==
    { << tbl[c].x, tbl[c].y, tbl[c].z >> :
        c \in { v \in DOMAIN tbl :
                   \E n \in Neighbours(v) \ { << v[1], v[2], v[3] - 1 >> } :
                       n \notin DOMAIN tbl } }

find_surface(tbl) ==
    { << tbl[c].x, tbl[c].y, tbl[c].z >> :
        c \in { v \in DOMAIN tbl : \E n \in Neighbours(v) : n \notin DOMAIN tbl } }

\* project_service.get_surface(occupied): the cells of the set for which one
\* of the six directions leads to a cell outside the set
directions ==
    { << 1, 0, 0 >>, << -1, 0, 0 >>, << 0, 1, 0 >>, << 0, -1, 0 >>,
      << 0, 0, 1 >>, << 0, 0, -1 >> }

get_surface(occupied) ==
    { v \in occupied :
          \E d \in directions :
              << v[1] + d[1], v[2] + d[2], v[3] + d[3] >> \notin occupied }

\* a row of a layer query: SELECT ix, iy, iz, x, y, z, material,
\* magnet_magnitude, magnet_polar, magnet_azimuth
LayerRow(tbl, c) ==
    << c[1], c[2], c[3], tbl[c].x, tbl[c].y, tbl[c].z, tbl[c].material,
       tbl[c].magnet_magnitude, tbl[c].magnet_polar, tbl[c].magnet_azimuth >>

\* model_tracking_service.get_x_layer / get_y_layer / get_z_layer: the rows
\* fetchall() gives for WHERE ix = ? (iy, iz); SQL fixes no order, the rows
\* are taken as a set
get_x_layer(ix, tbl) ==
    { LayerRow(tbl, c) : c \in { c \in DOMAIN tbl : c[1] = ix } }

get_y_layer_by_ix(iy, tbl) ==
    { LayerRow(tbl, c) : c \in { c \in DOMAIN tbl : c[1] = iy } }

get_y_layer(iy, tbl) ==
    { LayerRow(tbl, c) : c \in { c \in DOMAIN tbl : c[2] = iy } }

get_z_layer(iz, tbl) ==
    { LayerRow(tbl, c) : c \in { c \in DOMAIN tbl : c[3] = iz } }

(***************************************************************************)
(* Routers: edit_router.py (update_voxels, update_history) and             *)
(* project_router.py (get_surface_voxels).  A handler is an operator from  *)
(* the request and the current state to its outcome; the action applies    *)
(* the outcome.                                                            *)
(***************************************************************************)
Outcome(status, value, d, S, C) ==
    [status |-> status, value |-> value, db |-> d, S |-> S, C |-> C]

Untouched(status) == Outcome(status, None, db, Stacks, CtxStacks)

\* edit_router.update_voxels, from the try block on (lines 112-169)
update_voxels_body(req, partition_path) ==
    IF req.action = "update"
    THEN LET old_voxels == get_full_voxels(db[partition_path], req.voxels)
         IN
         IF old_voxels.raised
         THEN Untouched("500")
         ELSE IF req.materialID # None /\ req.magnetization # None
         THEN Untouched("400")
         ELSE IF req.materialID = None /\ req.magnetization = None
         THEN Untouched("400")
         ELSE LET tbl == IF req.materialID # None
                         THEN update_voxel_materials(db[partition_path],
                                  req.voxels, req.materialID[1])
                         ELSE update_voxel_magnetization(db[partition_path],
                                  req.voxels, req.magnetization[1])
                  d == [db EXCEPT ![partition_path] = tbl]
                  new_voxels == get_full_voxels(tbl, req.voxels)
              IN  IF new_voxels.raised
                  THEN Outcome("500", None, d, Stacks, CtxStacks)
                  ELSE LET delta == ModelDelta(old_voxels.value, new_voxels.value)
                       IN  Outcome("200", Some(delta), d,
                                   record_change(Stacks, delta),
                                   record_change(CtxStacks, partition_path))
    ELSE Untouched("400")

\* the existence checks every handler makes first (e.g. lines 94-110)
Lookup(req, body) ==
    IF ProjectPath(req.project_name) \notin ExistingProjects
    THEN Untouched("404")
    ELSE IF PartitionPath(req.project_name, req.partition_name)
                \notin ExistingPartitions
    THEN Untouched("404")
    ELSE body

Apply(req, out) ==
    /\ Snapshot
    /\ SetStacks(out.S, out.C)
    /\ db' = out.db
    /\ request' = req
    /\ result' = [status |-> out.status, value |-> out.value]
    /\ UNCHANGED << PARTITIONS, job >>

\* POST /api/edit/update
update_voxels(req) ==
    LET out == Lookup(req, update_voxels_body(req,
                   PartitionPath(req.project_name, req.partition_name)))
    IN  /\ Apply(req, out)
        /\ IF out.status = "200" THEN Log(out.value[1]) ELSE NoLog

\* edit_router.update_history, from the try block on (lines 201-230): the
\* stack operation first, then the voxels are re-applied at str(project_path)
update_history_body(req, project_path) ==
    IF req.action \in { "undo", "redo" }
    THEN LET S == IF req.action = "undo"
                  THEN undo_request(Stacks) ELSE redo_request(Stacks)
             C == IF req.action = "undo"
                  THEN undo_request(CtxStacks) ELSE redo_request(CtxStacks)
         IN
         IF S.raised
         THEN Untouched("400")
         ELSE LET change == S.delta[1]
                  applied == update_voxel_properties(db, project_path,
                                 IF req.action = "undo"
                                 THEN change.old_voxels ELSE change.new_voxels)
              IN  Outcome(IF applied.raised THEN "500" ELSE "200",
                          S.delta, applied.db, S, C)
    ELSE Untouched("400")

\* POST /api/edit/history
update_history(req) ==
    LET out == Lookup(req, update_history_body(req, ProjectPath(req.project_name)))
    IN  /\ Apply(req, out)
        /\ NoLog

\* project_router.get_surface_voxels (lines 87-101): read the surface, then
\* clear_history()
get_surface_voxels_body(partition_path) ==
    Outcome("200", Some(find_surface(db[partition_path])), db,
            clear_history(Stacks), clear_history(CtxStacks))

\* GET /api/project
get_surface_voxels(req) ==
    LET out == Lookup(req, get_surface_voxels_body(
                   PartitionPath(req.project_name, req.partition_name)))
    IN  /\ Apply(req, out)
        /\ NoLog

\* the requests a client can send
VoxelLists ==
    UNION { [1..n -> Cells] : n \in 0..MaxTargets }

UpdateVoxelsRequests ==
    { [NoRequest EXCEPT !.op = "update_voxels", !.project_name = t[1],
                        !.partition_name = t[2], !.voxels = vs, !.action = a,
                        !.materialID = m, !.magnetization = g] :
        t \in Targets, vs \in VoxelLists,
        a \in { "update", "add" },
        m \in { None } \cup { Some(x) : x \in MaterialIDs },
        g \in { None } \cup { Some(x) : x \in Magnetizations } }

UpdateHistoryRequests ==
    { [NoRequest EXCEPT !.op = "update_history", !.project_name = t[1],
                        !.partition_name = t[2], !.action = a] :
        t \in Targets,
        a \in { "undo", "redo", "other" } }

SurfaceRequests ==
    { [NoRequest EXCEPT !.op = "get_surface_voxels", !.project_name = t[1],
                        !.partition_name = t[2]] :
        t \in Targets }

Next ==
    \/ \E req \in UpdateVoxelsRequests : update_voxels(req)
    \/ \E req \in UpdateHistoryRequests : update_history(req)
    \/ \E req \in SurfaceRequests : get_surface_voxels(req)

Spec == Init /\ [][Next]_vars

(***************************************************************************)
(* Properties of the history manager (checked under SpecHM)                *)
(***************************************************************************)
Held == Range(history_stack) \cup Range(redo_stack)
PrevHeld == Range(prev_history) \cup Range(prev_redo)

\* C1: after any sequence of record_change, undo, redo and clear the history
\* stack never holds more than MAX_HISTORY_SIZE deltas.
C1_HistoryBounded == Len(history_stack) <= MAX_HISTORY_SIZE

\* a record_change arrived at a full history stack
C1_Witness ==
    /\ request.op = "record_change"
    /\ Len(prev_history) = MAX_HISTORY_SIZE
    /\ Len(history_stack) = MAX_HISTORY_SIZE

\* C2: record_change(d) on a full history stack [d1..dN] leaves [d2..dN, d]:
\* the oldest entry is the one evicted and d is on top.
C2_EvictsOldest ==
    (request.op = "record_change" /\ Len(prev_history) = MAX_HISTORY_SIZE)
        => history_stack = Append(Tail(prev_history), request.delta[1])

\* the full stack held distinct deltas and d was none of them
C2_Witness ==
    /\ request.op = "record_change"
    /\ Len(prev_history) = MAX_HISTORY_SIZE
    /\ NoDuplicates(prev_history)
    /\ request.delta[1] \notin Range(prev_history)

\* C3: record_change(delta) leaves delta on top of the history stack and the
\* redo stack empty, whatever the redo stack held before.
C3_RecordClearsRedo ==
    request.op = "record_change"
        => /\ redo_stack = << >>
           /\ history_stack # << >>
           /\ Last(history_stack) = request.delta[1]

\* a record_change that followed two undos
C3_Witness ==
    /\ request.op = "record_change"
    /\ Len(prev_redo) >= 2

\* C4: undo on a non-empty history stack removes exactly its top, pushes that
\* delta on top of the redo stack and returns it; every other entry of both
\* stacks stays in place.
C4_UndoMovesTop ==
    (request.op = "undo_request" /\ prev_history # << >>)
        => /\ result.status = "ok"
           /\ result.value = Some(Last(prev_history))
           /\ history_stack = Front(prev_history)
           /\ redo_stack = Append(prev_redo, Last(prev_history))

\* an undo with other entries below the top and a non-empty redo stack
C4_Witness ==
    /\ request.op = "undo_request"
    /\ Len(prev_history) >= 2
    /\ prev_history[1] # Last(prev_history)
    /\ prev_redo # << >>

\* C5: redo on a non-empty redo stack removes exactly its top, pushes that
\* delta on top of the history stack and returns it; every other entry stays
\* in place; and from every state an undo followed at once by a redo gives
\* back both stacks as they were before the undo.
C5_RedoMovesTop ==
    /\ (request.op = "redo_request" /\ prev_redo # << >>)
           => /\ result.status = "ok"
              /\ result.value = Some(Last(prev_redo))
              /\ redo_stack = Front(prev_redo)
              /\ history_stack = Append(prev_history, Last(prev_redo))
    /\ history_stack # << >>
           => LET u == undo_request(Stacks)
                  r == redo_request([history |-> u.history, redo |-> u.redo])
              IN  /\ ~u.raised /\ ~r.raised
                  /\ r.delta = u.delta
                  /\ r.history = history_stack
                  /\ r.redo = redo_stack

\* a redo with another entry below the top of the redo stack
C5_Witness ==
    /\ request.op = "redo_request"
    /\ Len(prev_redo) >= 2
    /\ prev_redo[1] # Last(prev_redo)
    /\ prev_history # << >>

\* C6: undo with an empty history stack and redo with an empty redo stack
\* raise EmptyHistoryException and leave both stacks as they were.
C6_EmptyRaises ==
    /\ (request.op = "undo_request" /\ prev_history = << >>)
           => /\ result.status = "EmptyHistoryException"
              /\ result.value = None
              /\ history_stack = prev_history
              /\ redo_stack = prev_redo
    /\ (request.op = "redo_request" /\ prev_redo = << >>)
           => /\ result.status = "EmptyHistoryException"
              /\ result.value = None
              /\ history_stack = prev_history
              /\ redo_stack = prev_redo

\* an undo that found the history stack empty and the redo stack not
C6_Witness ==
    /\ request.op = "undo_request"
    /\ result.status = "EmptyHistoryException"
    /\ prev_history = << >>
    /\ prev_redo # << >>

\* C7: as long as every recorded delta is distinct, no delta is in both
\* stacks and none is twice in either.
C7_NoDuplicates ==
    distinct => NoDuplicates(history_stack \o redo_stack)

\* more distinct deltas were recorded than the history stack holds, and both
\* stacks hold some of them
C7_Witness ==
    /\ distinct
    /\ Cardinality(recorded) > MAX_HISTORY_SIZE
    /\ history_stack # << >>
    /\ redo_stack # << >>

\* C8 as stated: record_change is the only operation that discards data, and
\* it discards only the oldest history entry beyond capacity; undo, redo and
\* clear keep the set of deltas held in history plus redo.
C8_OnlyRecordDiscards ==
    /\ request.op \in { "undo_request", "redo_request", "clear_history" }
           => Held = PrevHeld
    /\ request.op = "record_change"
           => PrevHeld \ Held \subseteq
                  (IF Len(prev_history) >= MAX_HISTORY_SIZE
                   THEN { prev_history[1] } ELSE {})

\* C8 amended: undo and redo keep every delta (they only move the boundary
\* between the stacks); record_change discards the whole redo stack and the
\* oldest history entry beyond capacity; clear discards every delta.
C8_WhatIsDiscarded ==
    /\ request.op \in { "undo_request", "redo_request" }
           => /\ Held = PrevHeld
              /\ history_stack \o Reverse(redo_stack)
                     = prev_history \o Reverse(prev_redo)
    /\ request.op = "record_change"
           => /\ redo_stack = << >>
              /\ history_stack =
                     (IF Len(prev_history) >= MAX_HISTORY_SIZE
                      THEN Append(Tail(prev_history), request.delta[1])
                      ELSE Append(prev_history, request.delta[1]))
    /\ request.op = "clear_history"
           => history_stack = << >> /\ redo_stack = << >>

\* a redo that left deltas on both stacks
C8_Witness ==
    /\ request.op = "redo_request"
    /\ result.status = "ok"
    /\ Len(history_stack) >= 2
    /\ redo_stack # << >>


(***************************************************************************)
(* Properties of the edit workflow (checked under Spec)                    *)
(***************************************************************************)
RequestPath == PartitionPath(request.project_name, request.partition_name)

\* the full state (ix, iy, iz, material, magnitude, polar, azimuth) of the
\* listed voxels in a table that holds them all
FullState(tbl, voxels) ==
    [i \in 1..Len(voxels) |->
        FullVoxel(voxels[i], tbl[voxels[i]].material,
                  tbl[voxels[i]].magnet_magnitude,
                  tbl[voxels[i]].magnet_polar,
                  tbl[voxels[i]].magnet_azimuth)]

\* C9: the stacks are reset whenever the project/partition context changes:
\* when an edit or history request is processed for a partition, every delta
\* the stacks held before it was recorded for that same partition (the stacks
\* are empty otherwise), so undo/redo never returns another partition's delta.
C9_ResetOnContextChange ==
    (request.op \in { "update_voxels", "update_history" }
         /\ result.status \notin { "404", "400" })
        => prev_ctx \subseteq { RequestPath }

\* C10: a successful UPDATE edit request on a set of target voxels records
\* exactly one ModelDelta on the history stack whose old_voxels is the full
\* state of every targeted voxel before the edit and whose new_voxels is their
\* full state after it.  A request that names at least one voxel, all held by
\* the partition, and exactly one of material id and magnetization is one.
C10_UpdateRecordsDelta ==
    (/\ request.op = "update_voxels"
     /\ request.action = "update"
     /\ RequestPath \in ExistingPartitions
     /\ request.voxels # << >>
     /\ Range(request.voxels) \subseteq DOMAIN prev_db[RequestPath]
     /\ (request.materialID = None) # (request.magnetization = None))
        => LET delta == ModelDelta(FullState(prev_db[RequestPath], request.voxels),
                                   FullState(db[RequestPath], request.voxels))
           IN  /\ result.status = "200"
               /\ history_stack = record_change(
                      [history |-> prev_history, redo |-> prev_redo], delta).history


\* the voxels an undo re-applies are the delta's old_voxels, a redo's are its
\* new_voxels
Reapplied(action, change) ==
    IF action = "undo" THEN change.old_voxels ELSE change.new_voxels

\* C11: once an edit is recorded, an undo request restores in the edited
\* partition's store the prior material and magnetization of every voxel of
\* the delta, and a redo request restores the post-change values: a history
\* request that takes a delta from a stack is carried out, and afterwards the
\* store of its partition holds the values the delta lists.
C11_UndoRedoRestores ==
    (/\ request.op = "update_history"
     /\ request.action \in { "undo", "redo" }
     /\ result.value # None)
        => /\ result.status = "200"
           /\ \A v \in Range(Reapplied(request.action, result.value[1])) :
                  /\ << v[1], v[2], v[3] >> \in DOMAIN db[RequestPath]
                  /\ get_properties(db[RequestPath], << v[1], v[2], v[3] >>)
                         = << << v[4], v[5], v[6], v[7] >> >>


(***************************************************************************)
(* The voxel store on its own: the calls of VoxelDB and of the editing      *)
(* service on one store file, as tests/services-tests/test_model_structure *)
(* makes them.  Each action is one `with VoxelDB(path) as db:` scope, left  *)
(* through __exit__, which commits.                                        *)
(***************************************************************************)
\* longest batch handed to upsert_many
MaxBatch == 2

\* the store file of the calls
StorePath == << "test-files", "test_voxels" >>

\* batch rows (ix, iy, iz, x, y, z): the cells of `Cells`, each with two
\* possible centres (two points can fall into the same cell, see
\* get_grid_conversion), and a row without its x
BatchRows ==
    { << c[1], c[2], c[3], x, 0, 0 >> : c \in Cells, x \in { 0, 5 } }
        \cup { << 1, 0, 0, NULL, 0, 0 >> }

Batches ==
    UNION { [1..n -> BatchRows] : n \in 0..MaxBatch }

\* magnetization arguments: complete, partial, and all None
MagnetArgs == Magnetizations \cup { << 1, NULL, 3 >>, << NULL, NULL, NULL >> }

Partial(m) ==
    /\ \E i \in 1..3 : m[i] = NULL
    /\ \E i \in 1..3 : m[i] # NULL

InitDB ==
    /\ history_stack = << >>
    /\ redo_stack = << >>
    /\ history_ctx = << >>
    /\ redo_ctx = << >>
    /\ db = [p \in { StorePath } |-> << >>]
    /\ request = NoRequest
    /\ result = [status |-> "none", value |-> None]
    /\ prev_history = << >>
    /\ prev_redo = << >>
    /\ prev_ctx = {}
    /\ prev_db = db
    /\ recorded = {}
    /\ distinct = TRUE
    /\ PARTITIONS = << >>
    /\ job = NoJob

StoreCall(req, status, tbl) ==
    /\ Snapshot
    /\ SetStacks(Stacks, CtxStacks)
    /\ NoLog
    /\ db' = [db EXCEPT ![StorePath] = tbl]
    /\ request' = req
    /\ result' = [status |-> status, value |-> None]
    /\ UNCHANGED << PARTITIONS, job >>

DB_upsert_many(rows) ==
    StoreCall([NoRequest EXCEPT !.op = "upsert_many", !.rows = rows],
              IF \E i \in 1..Len(rows) : BadRow(rows[i])
              THEN "IntegrityError" ELSE "ok",
              upsert_many(db[StorePath], rows))

DB_add_voxel(c) ==
    LET r == add_voxel(db[StorePath], c)
    IN  StoreCall([NoRequest EXCEPT !.op = "add_voxel", !.voxels = << c >>],
                  IF r.raised THEN "NameError" ELSE "ok", r.tbl)

DB_delete_voxel(c) ==
    StoreCall([NoRequest EXCEPT !.op = "delete_voxel", !.voxels = << c >>],
              "ok", delete_voxel(db[StorePath], c))

DB_set_material(c, material_val) ==
    StoreCall([NoRequest EXCEPT !.op = "set_material", !.voxels = << c >>,
                                !.materialID = Some(material_val)],
              "ok", set_material(db[StorePath], c, material_val))

DB_set_magnetization(c, m) ==
    StoreCall([NoRequest EXCEPT !.op = "set_magnetization", !.voxels = << c >>,
                                !.magnetization = Some(m)],
              IF IntegrityError(db[StorePath], c, m)
              THEN "IntegrityError" ELSE "ok",
              set_magnetization(db[StorePath], c, m[1], m[2], m[3]))

DB_set_properties(c, material_val, m) ==
    StoreCall([NoRequest EXCEPT !.op = "set_properties", !.voxels = << c >>,
                                !.materialID = Some(material_val),
                                !.magnetization = Some(m)],
              IF IntegrityError(db[StorePath], c, m)
              THEN "IntegrityError" ELSE "ok",
              set_properties(db[StorePath], c, material_val, m[1], m[2], m[3]))

\* model_editing_service.update_voxel_materials(project_path, voxels, materialID)
\* called directly: returns None
EM_update_voxel_materials(voxels, materialID) ==
    StoreCall([NoRequest EXCEPT !.op = "update_voxel_materials",
                                !.voxels = voxels,
                                !.materialID = Some(materialID)],
              "ok", update_voxel_materials(db[StorePath], voxels, materialID))

\* model_editing_service.update_voxel_magnetization called directly: the first
\* set_magnetization that raises ends the loop, and every later one of the
\* same call would raise or match no row
EM_update_voxel_magnetization(voxels, m) ==
    StoreCall([NoRequest EXCEPT !.op = "update_voxel_magnetization",
                                !.voxels = voxels,
                                !.magnetization = Some(m)],
              IF \E i \in 1..Len(voxels) : IntegrityError(db[StorePath], voxels[i], m)
              THEN "IntegrityError" ELSE "ok",
              update_voxel_magnetization(db[StorePath], voxels, m))

\* Voxel(ix, iy, iz, x, y, z, material, magnet_magnitude, magnet_polar,
\* magnet_azimuth): nothing is stored by it
New_Voxel(c, material, m) ==
    LET r == Voxel(c, c, material, m[1], m[2], m[3])
    IN  /\ Snapshot
        /\ SetStacks(Stacks, CtxStacks)
        /\ NoLog
        /\ request' = [NoRequest EXCEPT !.op = "Voxel", !.voxels = << c >>,
                                        !.materialID = Some(material),
                                        !.magnetization = Some(m)]
        /\ result' = [status |-> IF r.raised THEN "FrozenInstanceError" ELSE "ok",
                      value |-> r.value]
        /\ UNCHANGED << db, PARTITIONS, job >>

\* a read: the store is left as it is
ReadCall(req, value) ==
    /\ Snapshot
    /\ SetStacks(Stacks, CtxStacks)
    /\ NoLog
    /\ request' = req
    /\ result' = [status |-> "ok", value |-> Some(value)]
    /\ UNCHANGED << db, PARTITIONS, job >>

\* layer indexes a query can name
LayerIndexes == { 0, 1 }

MT_get_x_layer(ix) ==
    ReadCall([NoRequest EXCEPT !.op = "get_x_layer", !.layer_index = ix],
             get_x_layer(ix, db[StorePath]))

MT_get_y_layer(iy) ==
    ReadCall([NoRequest EXCEPT !.op = "get_y_layer", !.layer_index = iy],
             get_y_layer(iy, db[StorePath]))

MT_get_z_layer(iz) ==
    ReadCall([NoRequest EXCEPT !.op = "get_z_layer", !.layer_index = iz],
             get_z_layer(iz, db[StorePath]))

NextDB ==
    \/ \E rows \in Batches : DB_upsert_many(rows)
    \/ \E c \in Cells : DB_add_voxel(c)
    \/ \E c \in Cells : DB_delete_voxel(c)
    \/ \E c \in Cells, material_val \in MaterialIDs : DB_set_material(c, material_val)
    \/ \E c \in Cells, m \in MagnetArgs : DB_set_magnetization(c, m)
    \/ \E c \in Cells, material_val \in MaterialIDs, m \in MagnetArgs :
           DB_set_properties(c, material_val, m)
    \/ \E voxels \in VoxelLists, materialID \in MaterialIDs :
           EM_update_voxel_materials(voxels, materialID)
    \/ \E voxels \in VoxelLists, m \in MagnetArgs :
           EM_update_voxel_magnetization(voxels, m)
    \/ \E c \in Cells, m \in MagnetArgs : New_Voxel(c, DEFAULT_MATERIAL, m)
    \/ \E ix \in LayerIndexes : MT_get_x_layer(ix)
    \/ \E iy \in LayerIndexes : MT_get_y_layer(iy)
    \/ \E iz \in LayerIndexes : MT_get_z_layer(iz)

SpecDB == InitDB /\ [][NextDB]_vars

(***************************************************************************)
(* Properties of the voxel store                                           *)
(***************************************************************************)
Store == db[StorePath]
PrevStore == prev_db[StorePath]

\* the keys of a batch, and the row a batch gives last for a key
Keys(rows) == { << rows[i][1], rows[i][2], rows[i][3] >> : i \in 1..Len(rows) }

LastFor(rows, key) ==
    LET i == CHOOSE i \in 1..Len(rows) :
                 /\ << rows[i][1], rows[i][2], rows[i][3] >> = key
                 /\ \A j \in (i + 1)..Len(rows) :
                        << rows[j][1], rows[j][2], rows[j][3] >> # key
    IN  rows[i]

\* C12 as stated: whatever the batch of voxels (rows with all six values),
\* after upsert_many into an empty store the rows read back are exactly the
\* rows of the batch.
C12_ReadBackIsBatch ==
    (/\ request.op = "upsert_many"
     /\ result.status = "ok"
     /\ DOMAIN PrevStore = {})
        => ReadBack(Store) = Range(request.rows)

\* C12: after upsert_many of a batch of voxels the store holds, for every coordinate of the batch,
\* the last row the batch gives for it, and for every other coordinate what it
\* held before; so a batch of pairwise distinct coordinates put into an empty
\* store is read back exactly, whatever the order of its rows.
C12_UpsertReadBack ==
    (request.op = "upsert_many" /\ result.status = "ok")
        => /\ ReadBack(Store)
                  = { LastFor(request.rows, key) : key \in Keys(request.rows) }
                    \cup { r \in ReadBack(PrevStore) :
                               << r[1], r[2], r[3] >> \notin Keys(request.rows) }
           /\ (/\ DOMAIN PrevStore = {}
               /\ Cardinality(Keys(request.rows)) = Len(request.rows))
                  => ReadBack(Store) = Range(request.rows)

\* a batch of two rows with distinct coordinates was put into an empty store
C12_Witness ==
    /\ request.op = "upsert_many"
    /\ DOMAIN PrevStore = {}
    /\ Len(request.rows) = 2
    /\ Cardinality(Keys(request.rows)) = 2
    /\ Cardinality(ReadBack(Store)) = 2

\* C13: delete_voxel never fails; it removes the voxel at the given coordinate
\* if there is one and leaves every other voxel, and a store without a voxel
\* there, as it was.
C13_DeleteExactlyOne ==
    request.op = "delete_voxel"
        => /\ result.status = "ok"
           /\ DOMAIN Store = DOMAIN PrevStore \ Range(request.voxels)
           /\ \A c \in DOMAIN Store : Store[c] = PrevStore[c]

\* a voxel was deleted from a store that held another one
C13_Witness ==
    /\ request.op = "delete_voxel"
    /\ request.voxels[1] \in DOMAIN PrevStore
    /\ DOMAIN Store # {}

\* a call that sets properties named a coordinate at which no voxel is stored
MissedUpdate ==
    /\ request.op \in { "set_material", "set_magnetization", "set_properties",
                        "update_voxel_materials", "update_voxel_magnetization" }
    /\ \E c \in Range(request.voxels) : c \notin DOMAIN PrevStore

\* C14: a property update aimed at a coordinate with no voxel creates no row
\* and changes none, and it is not reported as a success.
C14_MissedUpdateDetected ==
    MissedUpdate
        => /\ Store = PrevStore
           /\ result.status # "ok"

PartialWrite ==
    /\ request.op \in { "set_magnetization", "set_properties",
                        "update_voxel_magnetization", "Voxel" }
    /\ Partial(request.magnetization[1])

AllOrNone(row) ==
    \/ /\ row.magnet_magnitude = NULL
       /\ row.magnet_polar = NULL
       /\ row.magnet_azimuth = NULL
    \/ /\ row.magnet_magnitude # NULL
       /\ row.magnet_polar # NULL
       /\ row.magnet_azimuth # NULL

\* C15: every stored voxel has all three magnetization fields or none of
\* them, and a write or a Voxel construction that supplies only some of the
\* three is rejected and stores nothing.
C15_MagnetizationAllOrNone ==
    /\ \A c \in DOMAIN Store : AllOrNone(Store[c])
    /\ PartialWrite => /\ result.status # "ok"
                       /\ Store = PrevStore


(***************************************************************************)
(* Partitioner: app/services/partition_manager.py.  Files are the keys of  *)
(* db; a path is (directory, file stem, number): the parent store is       *)
(* sphere.db, partition `count` is sphere-partition{count}.db beside it.   *)
(***************************************************************************)
\* largest partition_size passed to get_partitions
MaxL == 4

\* the parent store handed to get_partitions
DbPath == << "proj", "sphere", 0 >>

\* os.path.join(os.path.dirname(db_path), f"sphere-partition{count}.db")
PartitionFile(db_path, count) == << db_path[1], "sphere-partition", count >>

\* the voxels of the parent store before any is deleted: a row along x that
\* starts below zero, and one voxel off that row
PartCells ==
    { << -3, 0, 0 >>, << 0, 0, 0 >>, << 2, 0, 0 >>, << 5, 0, 0 >>, << 0, 3, 1 >> }

\* SELECT MIN(..), MAX(..) FROM voxels
MinOf(S) == CHOOSE m \in S : \A n \in S : m <= n
MaxOf(S) == CHOOSE m \in S : \A n \in S : m >= n

\* x_lo = (min_ix // half) * half   (Python // and TLA+ \div both floor)
Lo(min, half) == (min \div half) * half

\* x_hi = ((max_ix // half) + 1) * half
Hi_not_beyond(max, half) == (max \div half) * half

Hi(max, half) == ((max \div half) + 1) * half

\* list(range(lo, hi, step)) for lo < hi, step > 0
range(lo, hi, step) ==
    [n \in 1..((hi - lo + step - 1) \div step) |-> lo + (n - 1) * step]

\* cubes one index wider than the stride of the loops
voxel_ranges_overlapping(xs, ys, zs, partition_size) ==
    [n \in 1..(Len(xs) * Len(ys) * Len(zs)) |->
        LET i == xs[((n - 1) \div (Len(ys) * Len(zs))) + 1]
            j == ys[(((n - 1) \div Len(zs)) % Len(ys)) + 1]
            k == zs[((n - 1) % Len(zs)) + 1]
        IN  << i, i + partition_size + 1, j, j + partition_size + 1,
               k, k + partition_size + 1 >>]

\* the voxel_range tuples in the order of the three nested loops: i outermost,
\* k innermost
voxel_ranges(xs, ys, zs, partition_size) ==
    [n \in 1..(Len(xs) * Len(ys) * Len(zs)) |->
        LET i == xs[((n - 1) \div (Len(ys) * Len(zs))) + 1]
            j == ys[(((n - 1) \div Len(zs)) % Len(ys)) + 1]
            k == zs[((n - 1) % Len(zs)) + 1]
        IN  << i, i + partition_size, j, j + partition_size,
               k, k + partition_size >>]

\* remove_outside_range: DELETE FROM voxels WHERE NOT (ix >= xmin AND ix < xmax
\* AND iy >= ymin AND iy < ymax AND iz >= zmin AND iz < zmax)
InRange(c, voxel_range) ==
    /\ c[1] >= voxel_range[1] /\ c[1] < voxel_range[2]
    /\ c[2] >= voxel_range[3] /\ c[2] < voxel_range[4]
    /\ c[3] >= voxel_range[5] /\ c[3] < voxel_range[6]

remove_outside_range_closed(tbl, voxel_range) ==
    [c \in { c \in DOMAIN tbl :
                 /\ c[1] >= voxel_range[1] /\ c[1] <= voxel_range[2]
                 /\ c[2] >= voxel_range[3] /\ c[2] <= voxel_range[4]
                 /\ c[3] >= voxel_range[5] /\ c[3] <= voxel_range[6] } |-> tbl[c]]

remove_outside_range(tbl, voxel_range) ==
    [c \in { c \in DOMAIN tbl : InRange(c, voxel_range) } |-> tbl[c]]

\* shutil.copy2(db_path, new_path) followed by remove_outside_range(new_path, ..)
WriteFile(d, path, tbl) ==
    [p \in DOMAIN d \cup { path } |-> IF p = path THEN tbl ELSE d[p]]

\* os.remove(new_path)
RemoveFile(d, path) ==
    [p \in DOMAIN d \ { path } |-> d[p]]

\* the body of the innermost loop for one voxel_range.  st carries the files,
\* PARTITIONS, count, and `cubes`, the log of the iterations so far: the
\* voxel_range, the count its file was named with, and whether it was kept
partition_step_keeps_empty(st, db_path, voxel_range) ==
    LET new_path == PartitionFile(db_path, st.count)
        tbl == remove_outside_range(st.db[db_path], voxel_range)
        nonempty == DOMAIN tbl # {}
        entry == [voxel_range |-> voxel_range, count |-> st.count,
                  nonempty |-> nonempty]
    IN  IF nonempty
        THEN [db |-> WriteFile(st.db, new_path, tbl),
              PARTITIONS |-> Append(st.PARTITIONS, new_path),
              count |-> st.count + 1,
              cubes |-> Append(st.cubes, entry)]
        ELSE [db |-> WriteFile(st.db, new_path, tbl),
              PARTITIONS |-> st.PARTITIONS,
              count |-> st.count,
              cubes |-> Append(st.cubes, entry)]

partition_step_counts_all(st, db_path, voxel_range) ==
    LET new_path == PartitionFile(db_path, st.count)
        tbl == remove_outside_range(st.db[db_path], voxel_range)
        nonempty == DOMAIN tbl # {}
        entry == [voxel_range |-> voxel_range, count |-> st.count,
                  nonempty |-> nonempty]
    IN  IF nonempty
        THEN [db |-> WriteFile(st.db, new_path, tbl),
              PARTITIONS |-> Append(st.PARTITIONS, new_path),
              count |-> st.count + 1,
              cubes |-> Append(st.cubes, entry)]
        ELSE [db |-> RemoveFile(WriteFile(st.db, new_path, tbl), new_path),
              PARTITIONS |-> st.PARTITIONS,
              count |-> st.count + 1,
              cubes |-> Append(st.cubes, entry)]

partition_step(st, db_path, voxel_range) ==
    LET new_path == PartitionFile(db_path, st.count)
        tbl == remove_outside_range(st.db[db_path], voxel_range)
        nonempty == DOMAIN tbl # {}
        entry == [voxel_range |-> voxel_range, count |-> st.count,
                  nonempty |-> nonempty]
    IN  IF nonempty
        THEN [db |-> WriteFile(st.db, new_path, tbl),
              PARTITIONS |-> Append(st.PARTITIONS, new_path),
              count |-> st.count + 1,
              cubes |-> Append(st.cubes, entry)]
        ELSE [db |-> RemoveFile(WriteFile(st.db, new_path, tbl), new_path),
              PARTITIONS |-> st.PARTITIONS,
              count |-> st.count,
              cubes |-> Append(st.cubes, entry)]

RECURSIVE partition_loop(_, _, _)
partition_loop(st, db_path, ranges) ==
    IF ranges = << >>
    THEN st
    ELSE partition_loop(partition_step(st, db_path, Head(ranges)),
                        db_path, Tail(ranges))

\* the three nested loops of get_partitions over the expanded span
partition_ranges(tbl, partition_size) ==
    LET half == partition_size \div 2
        X == { c[1] : c \in DOMAIN tbl }
        Y == { c[2] : c \in DOMAIN tbl }
        Z == { c[3] : c \in DOMAIN tbl }
    IN  voxel_ranges(
            range(Lo(MinOf(X), half), Hi(MaxOf(X), half), partition_size),
            range(Lo(MinOf(Y), half), Hi(MaxOf(Y), half), partition_size),
            range(Lo(MinOf(Z), half), Hi(MaxOf(Z), half), partition_size),
            partition_size)

\* get_partitions(db_path, partition_size), given the files d and the list P
\* that PARTITIONS holds when it is called.  PARTITIONS.clear() comes first;
\* on an empty store MIN/MAX are None and max_ix - min_ix raises TypeError;
\* with partition_size 1, half is 0 and min_ix // half raises
\* ZeroDivisionError.
get_partitions_keeps_list(d, P, db_path, partition_size) ==
    IF DOMAIN d[db_path] = {}
    THEN [raised |-> "TypeError", db |-> d, PARTITIONS |-> << >>, cubes |-> << >>]
    ELSE IF partition_size \div 2 = 0
    THEN [raised |-> "ZeroDivisionError", db |-> d, PARTITIONS |-> << >>,
          cubes |-> << >>]
    ELSE LET st == partition_loop(
                       [db |-> d, PARTITIONS |-> P, count |-> 1,
                        cubes |-> << >>],
                       db_path, partition_ranges(d[db_path], partition_size))
         IN  [raised |-> "ok", db |-> st.db, PARTITIONS |-> st.PARTITIONS,
              cubes |-> st.cubes]

get_partitions(d, P, db_path, partition_size) ==
    IF DOMAIN d[db_path] = {}
    THEN [raised |-> "TypeError", db |-> d, PARTITIONS |-> << >>, cubes |-> << >>]
    ELSE IF partition_size \div 2 = 0
    THEN [raised |-> "ZeroDivisionError", db |-> d, PARTITIONS |-> << >>,
          cubes |-> << >>]
    ELSE LET st == partition_loop(
                       [db |-> d, PARTITIONS |-> << >>, count |-> 1,
                        cubes |-> << >>],
                       db_path, partition_ranges(d[db_path], partition_size))
         IN  [raised |-> "ok", db |-> st.db, PARTITIONS |-> st.PARTITIONS,
              cubes |-> st.cubes]

InitPart ==
    /\ history_stack = << >>
    /\ redo_stack = << >>
    /\ history_ctx = << >>
    /\ redo_ctx = << >>
    /\ db = [p \in { DbPath } |-> [c \in PartCells |-> DefaultRow(c)]]
    /\ request = NoRequest
    /\ result = [status |-> "none", value |-> None]
    /\ prev_history = << >>
    /\ prev_redo = << >>
    /\ prev_ctx = {}
    /\ prev_db = db
    /\ recorded = {}
    /\ distinct = TRUE
    /\ PARTITIONS = << >>
    /\ job = NoJob

\* pm.get_partitions(db_path, partition_size); result.value is the log of the
\* cubes the loops went through
PM_get_partitions(partition_size) ==
    LET r == get_partitions(db, PARTITIONS, DbPath, partition_size)
    IN  /\ Snapshot
        /\ SetStacks(Stacks, CtxStacks)
        /\ NoLog
        /\ db' = r.db
        /\ PARTITIONS' = r.PARTITIONS
        /\ UNCHANGED job
        /\ request' = [NoRequest EXCEPT !.op = "get_partitions",
                                        !.partition_size = partition_size]
        /\ result' = [status |-> r.raised, value |-> r.cubes]

\* a voxel of the parent store is deleted between two runs
PM_delete_voxel(c) ==
    /\ Snapshot
    /\ SetStacks(Stacks, CtxStacks)
    /\ NoLog
    /\ db' = [db EXCEPT ![DbPath] = delete_voxel(db[DbPath], c)]
    /\ request' = [NoRequest EXCEPT !.op = "delete_voxel", !.voxels = << c >>]
    /\ result' = [status |-> "ok", value |-> None]
    /\ UNCHANGED << PARTITIONS, job >>

\* create_voxel_db calls pm.get_partitions(project_path, 11)
CREATE_PARTITION_SIZE == 11

NextPart ==
    \/ \E partition_size \in (1..MaxL) \cup { CREATE_PARTITION_SIZE } :
           PM_get_partitions(partition_size)
    \/ \E c \in PartCells : PM_delete_voxel(c)

SpecPart == InitPart /\ [][NextPart]_vars


(***************************************************************************)
(* Properties of the partitioner                                           *)
(***************************************************************************)
Parent == db[DbPath]

\* the last call was a get_partitions that returned
Returned == request.op = "get_partitions" /\ result.status = "ok"

\* the cubes it went through, and those of them that held a voxel
Cubes == result.value
Kept == { i \in 1..Len(Cubes) : Cubes[i].nonempty }

CubeFile(i) == PartitionFile(DbPath, Cubes[i].count)
Origin(i) ==
    << Cubes[i].voxel_range[1], Cubes[i].voxel_range[3], Cubes[i].voxel_range[5] >>

IsPartitionFile(p) == p[2] = "sphere-partition"

\* C16: every partition get_partitions produced holds exactly the parent's
\* voxels with lo <= i < hi on each axis of its cube, rows included: a voxel
\* on the low boundary is in, a voxel on the high boundary is not.
C16_HalfOpenMembership ==
    Returned
        => \A i \in Kept :
               LET r == Cubes[i].voxel_range
               IN  /\ CubeFile(i) \in DOMAIN db
                   /\ DOMAIN db[CubeFile(i)]
                          = { c \in DOMAIN Parent :
                                  /\ r[1] <= c[1] /\ c[1] < r[2]
                                  /\ r[3] <= c[2] /\ c[2] < r[4]
                                  /\ r[5] <= c[3] /\ c[3] < r[6] }
                   /\ \A c \in DOMAIN db[CubeFile(i)] :
                          db[CubeFile(i)][c] = Parent[c]

\* two partitions were produced, a voxel lies on the low x boundary of one of
\* them and a voxel lies on the high x boundary of one
C16_Witness ==
    /\ Returned
    /\ Cardinality(Kept) >= 2
    /\ \E i \in Kept : \E c \in DOMAIN Parent :
           c[1] = Cubes[i].voxel_range[1] /\ c \in DOMAIN db[CubeFile(i)]
    /\ \E i \in Kept : \E c \in DOMAIN Parent :
           /\ c[1] = Cubes[i].voxel_range[2]
           /\ c[2] >= Cubes[i].voxel_range[3] /\ c[2] < Cubes[i].voxel_range[4]
           /\ c[3] >= Cubes[i].voxel_range[5] /\ c[3] < Cubes[i].voxel_range[6]

\* C17: when get_partitions returns, no partition file in storage is without
\* voxels, the result list has one entry per cube that holds a voxel and none
\* for the others, and every entry names a stored partition with a voxel.
C17_NoEmptyPartition ==
    Returned
        => /\ \A p \in DOMAIN db : IsPartitionFile(p) => DOMAIN db[p] # {}
           /\ Len(PARTITIONS) = Cardinality(Kept)
           /\ \A n \in 1..Len(PARTITIONS) :
                  /\ PARTITIONS[n] \in DOMAIN db
                  /\ DOMAIN db[PARTITIONS[n]] # {}
                  /\ \E i \in Kept : PARTITIONS[n] = CubeFile(i)

\* a run went through the cubes, the last of them empty, and kept some
C17_Witness ==
    /\ Returned
    /\ Len(Cubes) >= 2
    /\ ~Cubes[Len(Cubes)].nonempty
    /\ Kept # {}

LexLess(a, b) ==
    \/ a[1] < b[1]
    \/ a[1] = b[1] /\ a[2] < b[2]
    \/ a[1] = b[1] /\ a[2] = b[2] /\ a[3] < b[3]

\* the low corners of the cubes of side L tiling the expanded span
Starts(S, L) ==
    { n \in Lo(MinOf(S), L \div 2)..(Hi(MaxOf(S), L \div 2) - 1) :
          (n - Lo(MinOf(S), L \div 2)) % L = 0 }

Tiling(tbl, L) ==
    Starts({ c[1] : c \in DOMAIN tbl }, L)
        \X Starts({ c[2] : c \in DOMAIN tbl }, L)
        \X Starts({ c[3] : c \in DOMAIN tbl }, L)

EnumeratedInOrder ==
    /\ { Origin(i) : i \in 1..Len(Cubes) } = Tiling(Parent, request.partition_size)
    /\ \A i \in 1..Len(Cubes) :
           /\ Cubes[i].voxel_range[2] = Cubes[i].voxel_range[1] + request.partition_size
           /\ Cubes[i].voxel_range[4] = Cubes[i].voxel_range[3] + request.partition_size
           /\ Cubes[i].voxel_range[6] = Cubes[i].voxel_range[5] + request.partition_size
    /\ \A i, j \in 1..Len(Cubes) : i < j => LexLess(Origin(i), Origin(j))

\* C18 as stated: the cubes are enumerated in increasing (x,y,z) order, the
\* i-th enumerated cube has index i whether it holds voxels or not, and the
\* result lists the non-empty ones in that order, each named by its index.
C18_NamedByCubeIndex ==
    Returned
        => /\ EnumeratedInOrder
           /\ \A i \in 1..Len(Cubes) : Cubes[i].count = i
           /\ \A n \in 1..Len(PARTITIONS) :
                  \E i \in Kept : /\ PARTITIONS[n] = PartitionFile(DbPath, i)
                                  /\ Cardinality({ j \in Kept : j <= i }) = n

\* C18: the cubes are enumerated in increasing (x,y,z) order; the indices
\* 1, 2, ... go to the cubes that hold a voxel only, so the k-th non-empty
\* cube of the enumeration is partition k, and the result lists the
\* partitions 1..n in that order.
C18_NamedByRankAmongNonEmpty ==
    Returned
        => /\ EnumeratedInOrder
           /\ \A i \in 1..Len(Cubes) :
                  Cubes[i].count = 1 + Cardinality({ j \in Kept : j < i })
           /\ PARTITIONS = [n \in 1..Cardinality(Kept) |-> PartitionFile(DbPath, n)]
           /\ \A i \in Kept : PARTITIONS[Cubes[i].count] = CubeFile(i)

\* an empty cube was enumerated before a cube that holds a voxel
C18_Witness ==
    /\ Returned
    /\ \E i, j \in 1..Len(Cubes) : i < j /\ i \notin Kept /\ j \in Kept

\* a partition file is in storage that the last run did not list
StaleFile ==
    \E p \in DOMAIN db : IsPartitionFile(p) /\ p \notin Range(PARTITIONS)

\* C19: what get_partitions produces (the cubes and their order, the indices,
\* the result list and the voxels of every listed partition) is what it
\* produces for the same parent store and L when no earlier run has left
\* anything behind.
C19_Deterministic ==
    Returned
        => LET clean == get_partitions([p \in { DbPath } |-> Parent], << >>,
                                       DbPath, request.partition_size)
           IN  /\ PARTITIONS = clean.PARTITIONS
               /\ Cubes = clean.cubes
               /\ \A p \in Range(PARTITIONS) : db[p] = clean.db[p]

\* a run returned in a storage that still holds a file of an earlier run
C19_Witness ==
    /\ Returned
    /\ StaleFile
    /\ PARTITIONS # << >>

\* the occupied span on x is [0,5] and L = 4
SpanExample ==
    /\ Returned
    /\ request.partition_size = 4
    /\ MinOf({ c[1] : c \in DOMAIN Parent }) = 0
    /\ MaxOf({ c[1] : c \in DOMAIN Parent }) = 5

XRanges == { << Cubes[i].voxel_range[1], Cubes[i].voxel_range[2] >> : i \in 1..Len(Cubes) }

\* the x range of the cube whose partition holds voxel c
XRangeOf(c) ==
    { << Cubes[i].voxel_range[1], Cubes[i].voxel_range[2] >> :
          i \in { i \in Kept : c \in DOMAIN db[CubeFile(i)] } }

SurfCells == { << 0, 0, 0 >> } \cup Neighbours(<< 0, 0, 0 >>)

\* the batch row of a cell: its centre lies at twice its grid coordinates
\* (pitch 2, origin 0 in get_grid_conversion)
SurfRow(c) == << c[1], c[2], c[3], 2 * c[1], 2 * c[2], 2 * c[3] >>

\* VoxelDB.upsert_many with the one row of a cell
Surf_upsert_many(c) ==
    StoreCall([NoRequest EXCEPT !.op = "upsert_many", !.rows = << SurfRow(c) >>],
              "ok", upsert_many(db[StorePath], << SurfRow(c) >>))

Surf_delete_voxel(c) ==
    StoreCall([NoRequest EXCEPT !.op = "delete_voxel", !.voxels = << c >>],
              "ok", delete_voxel(db[StorePath], c))

\* mt.find_surface(db_path)
Surf_find_surface ==
    ReadCall([NoRequest EXCEPT !.op = "find_surface"],
             find_surface(db[StorePath]))

\* get_surface(occupied) on the cells of the store
Surf_get_surface ==
    ReadCall([NoRequest EXCEPT !.op = "get_surface"],
             get_surface(DOMAIN db[StorePath]))

NextSurf ==
    \/ \E c \in SurfCells : Surf_upsert_many(c)
    \/ \E c \in SurfCells : Surf_delete_voxel(c)
    \/ Surf_find_surface
    \/ Surf_get_surface

SpecSurf == InitDB /\ [][NextSurf]_vars

\* the voxels of a table with a face-adjacent cell that holds no voxel
Exposed(tbl) ==
    { c \in DOMAIN tbl :
          ~ /\ << c[1] + 1, c[2], c[3] >> \in DOMAIN tbl
            /\ << c[1] - 1, c[2], c[3] >> \in DOMAIN tbl
            /\ << c[1], c[2] + 1, c[3] >> \in DOMAIN tbl
            /\ << c[1], c[2] - 1, c[3] >> \in DOMAIN tbl
            /\ << c[1], c[2], c[3] + 1 >> \in DOMAIN tbl
            /\ << c[1], c[2], c[3] - 1 >> \in DOMAIN tbl }

CentresOf(tbl, cells) == { << tbl[c].x, tbl[c].y, tbl[c].z >> : c \in cells }

\* C21: find_surface returns exactly the voxels of the store that have a
\* face-adjacent cell without a voxel (a voxel with all six present is not
\* returned), get_surface returns the same voxels for the same content, and a
\* store with a single voxel gives that voxel.
C21_SurfaceIffExposed ==
    /\ request.op = "find_surface"
           => result.value = Some(CentresOf(Store, Exposed(Store)))
    /\ request.op = "get_surface"
           => result.value = Some(Exposed(Store))
    /\ find_surface(Store) = CentresOf(Store, get_surface(DOMAIN Store))
    /\ Cardinality(DOMAIN Store) = 1
           => /\ get_surface(DOMAIN Store) = DOMAIN Store
              /\ Cardinality(find_surface(Store)) = 1

\* find_surface ran on a store where one voxel has all six neighbours: it
\* returned the six neighbours and not the enclosed voxel
C21_Witness ==
    /\ request.op = "find_surface"
    /\ DOMAIN Store = SurfCells
    /\ Cardinality(result.value[1]) = 6
    /\ << 0, 0, 0 >> \notin result.value[1]


\* the voxels of the store on a layer, with all ten columns
OnLayer(axis, index) ==
    { << c[1], c[2], c[3], Store[c].x, Store[c].y, Store[c].z,
         Store[c].material, Store[c].magnet_magnitude, Store[c].magnet_polar,
         Store[c].magnet_azimuth >> :
          c \in { c \in DOMAIN Store : c[axis] = index } }

\* C22: whatever writes came before, a layer query returns exactly the
\* voxels the store holds at that moment on the layer, each with its current
\* ten columns.
C22_LayerIsCurrent ==
    /\ request.op = "get_x_layer"
           => result.value = Some(OnLayer(1, request.layer_index))
    /\ request.op = "get_y_layer"
           => result.value = Some(OnLayer(2, request.layer_index))
    /\ request.op = "get_z_layer"
           => result.value = Some(OnLayer(3, request.layer_index))

\* a y-layer query after edits: it shows one voxel with material and
\* magnetization as edited, and the store holds a voxel that is on x layer 1
C22_Witness ==
    /\ request.op = "get_y_layer"
    /\ request.layer_index = 0
    /\ << 1, 0, 0 >> \in DOMAIN Store
    /\ \E r \in result.value[1] : r[7] = 3 /\ r[8] = 1 /\ r[9] = 2 /\ r[10] = 3


(***************************************************************************)
(* Further properties of the edit workflow (checked under Spec)            *)
(***************************************************************************)
\* the stores update_voxels opens before it looks at materialID and
\* magnetization: after the existence checks, an UPDATE request goes through
\* mt.get_full_voxels(str(partition_path), request.voxels) (line 114), which
\* enters a VoxelDB scope on the partition whatever the voxel list is
stores_opened_before_validation(req) ==
    IF \/ ProjectPath(req.project_name) \notin ExistingProjects
       \/ PartitionPath(req.project_name, req.partition_name)
              \notin ExistingPartitions
    THEN {}
    ELSE IF req.action = "update"
    THEN { PartitionPath(req.project_name, req.partition_name) }
    ELSE {}

\* C23: an UPDATE edit request with both a material id and a magnetization,
\* or with neither, is answered as an invalid request (400), and no store
\* has been opened for it by then.
C23_BothOrNeitherRejected ==
    (/\ request.op = "update_voxels"
     /\ request.action = "update"
     /\ RequestPath \in ExistingPartitions
     /\ (request.materialID = None) = (request.magnetization = None))
        => /\ result.status = "400"
           /\ stores_opened_before_validation(request) = {}


\* a write of several rows inside one VoxelDB scope
BatchedWrite ==
    request.op \in { "upsert_many", "update_voxel_materials",
                     "update_voxel_magnetization" }

\* C24: a batched write that raises leaves the store as it was before the
\* call: none of its rows is committed.
C24_BatchAllOrNothing ==
    (BatchedWrite /\ result.status # "ok") => Store = PrevStore


(***************************************************************************)
(* Partition creation with readers beside it.  get_partitions takes no     *)
(* lock and writes each partition file in place, so between its file       *)
(* operations (shutil.copy2, the DELETE of remove_outside_range with its   *)
(* commit, the probe with append or os.remove) a request served by another *)
(* thread or worker can run: list_partitions is a plain `def` route, which *)
(* the server runs on a worker thread while voxelize_stl, the caller of    *)
(* create_voxel_db and get_partitions, is busy.  Each file operation is    *)
(* one step here; job holds the position of the call.                      *)
(***************************************************************************)
\* the parent population of the run
ConcCells == { << 0, 0, 0 >>, << 2, 0, 0 >>, << 5, 0, 0 >> }

InitConc ==
    /\ history_stack = << >>
    /\ redo_stack = << >>
    /\ history_ctx = << >>
    /\ redo_ctx = << >>
    /\ db = [p \in { DbPath } |-> [c \in ConcCells |-> DefaultRow(c)]]
    /\ request = NoRequest
    /\ result = [status |-> "none", value |-> None]
    /\ prev_history = << >>
    /\ prev_redo = << >>
    /\ prev_ctx = {}
    /\ prev_db = db
    /\ recorded = {}
    /\ distinct = TRUE
    /\ PARTITIONS = << >>
    /\ job = NoJob

\* a step of the running get_partitions call
JobStep(d, P, j, status) ==
    /\ Snapshot
    /\ SetStacks(Stacks, CtxStacks)
    /\ NoLog
    /\ db' = d
    /\ PARTITIONS' = P
    /\ job' = j
    /\ request' = [NoRequest EXCEPT !.op = "get_partitions",
                                    !.partition_size = j.partition_size]
    /\ result' = [status |-> status, value |-> None]

\* lines 14-47: PARTITIONS.clear(), MIN/MAX, count = 1, the loop bounds
Job_start(partition_size) ==
    /\ job.pc = "idle"
    /\ JobStep(db, << >>,
               [pc |-> "copy",
                ranges |-> partition_ranges(db[DbPath], partition_size),
                count |-> 1, partition_size |-> partition_size],
               "running")

\* line 59: shutil.copy2(db_path, new_path)
Job_copy ==
    /\ job.pc = "copy"
    /\ JobStep(WriteFile(db, PartitionFile(DbPath, job.count), db[DbPath]),
               PARTITIONS, [job EXCEPT !.pc = "trim"], "running")

\* line 60: remove_outside_range(new_path, voxel_range)
Job_trim ==
    /\ job.pc = "trim"
    /\ LET new_path == PartitionFile(DbPath, job.count)
       IN  JobStep(WriteFile(db, new_path,
                             remove_outside_range(db[new_path], Head(job.ranges))),
                   PARTITIONS, [job EXCEPT !.pc = "probe"], "running")

\* lines 63-71: the probe, then PARTITIONS.append and count += 1, or
\* os.remove; the loops go on or the call returns
Job_probe ==
    /\ job.pc = "probe"
    /\ LET new_path == PartitionFile(DbPath, job.count)
           nonempty == DOMAIN db[new_path] # {}
           rest == Tail(job.ranges)
           next == IF rest = << >>
                   THEN NoJob
                   ELSE [job EXCEPT !.pc = "copy", !.ranges = rest,
                                    !.count = IF nonempty THEN @ + 1 ELSE @]
       IN  JobStep(IF nonempty THEN db ELSE RemoveFile(db, new_path),
                   IF nonempty THEN Append(PARTITIONS, new_path) ELSE PARTITIONS,
                   next,
                   IF rest = << >> THEN "ok" ELSE "running")

\* project_router.list_partitions: the files of the project directory
Reader_list_partitions ==
    /\ \E p \in DOMAIN db : p[1] = DbPath[1]
    /\ ReadCall([NoRequest EXCEPT !.op = "list_partitions"],
             { p \in DOMAIN db : p[1] = DbPath[1] })

\* surface extraction on a partition file that is there
Reader_find_surface(path) ==
    /\ path \in DOMAIN db
    /\ ReadCall([NoRequest EXCEPT !.op = "find_surface", !.path = path],
                find_surface(db[path]))

NextConc ==
    \/ \E partition_size \in 2..MaxL : Job_start(partition_size)
    \/ Job_copy
    \/ Job_trim
    \/ Job_probe
    \/ Reader_list_partitions
    \/ \E count \in 1..Cardinality(ConcCells) :
           Reader_find_surface(PartitionFile(DbPath, count))

SpecConc == InitConc /\ [][NextConc]_vars

\* a table that is the parent's voxels inside one cube of side L of the
\* expanded span, for some L, and holds a voxel
IsCubeOfParent(tbl) ==
    /\ DOMAIN tbl # {}
    /\ \E L \in 2..MaxL :
           \E o \in Tiling(Parent, L) :
               /\ DOMAIN tbl
                      = { c \in DOMAIN Parent :
                              /\ o[1] <= c[1] /\ c[1] < o[1] + L
                              /\ o[2] <= c[2] /\ c[2] < o[2] + L
                              /\ o[3] <= c[3] /\ c[3] < o[3] + L }
               /\ \A c \in DOMAIN tbl : tbl[c] = Parent[c]

\* C25: whenever a reader lists the partitions or reads one while partitions
\* are being created, each partition it sees holds exactly the parent's
\* voxels inside one cube: not the whole parent, not nothing.
C25_ReaderSeesWholePartitions ==
    /\ request.op = "list_partitions"
           => \A p \in result.value[1] :
                  IsPartitionFile(p) => IsCubeOfParent(db[p])
    /\ request.op = "find_surface"
           => IsCubeOfParent(db[request.path])


(***************************************************************************)
(* Property updates of the voxel store, step by step                       *)
(***************************************************************************)
\* the voxel a set_material / set_magnetization call names
Target(req) == req.voxels[1]

SetMaterialFrame ==
    (request'.op = "set_material" /\ Target(request') \in DOMAIN Store)
        => Store' = [Store EXCEPT
                        ![Target(request')].material = request'.materialID[1]]

SetMagnetizationFrame ==
    (/\ request'.op = "set_magnetization"
     /\ result'.status = "ok"
     /\ Target(request') \in DOMAIN Store)
        => LET m == request'.magnetization[1]
           IN  Store' = [Store EXCEPT
                            ![Target(request')].magnet_magnitude = m[1],
                            ![Target(request')].magnet_polar = m[2],
                            ![Target(request')].magnet_azimuth = m[3]]

MagnetThenMaterial ==
    (/\ request.op = "set_magnetization"
     /\ result.status = "ok"
     /\ Target(request) \in DOMAIN Store
     /\ request'.op = "set_material"
     /\ Target(request') = Target(request))
        => LET m == request.magnetization[1]
               k == request'.materialID[1]
           IN  get_properties(Store', Target(request))
                   = << << k, m[1], m[2], m[3] >> >>

\* C26: set_material on an existing voxel changes only that voxel's material
\* and set_magnetization only its three magnetization fields, every other
\* voxel and column staying as it was; set_magnetization(v, m) followed by
\* set_material(v, k) leaves get_properties(v) = (k, m).
C26_PropertyUpdatesAreFramed ==
    [][SetMaterialFrame /\ SetMagnetizationFrame /\ MagnetThenMaterial]_vars

\* C26 witness: set_material has just given a new material to a voxel that
\* carries the magnetization set before, beside another stored voxel.
C26_Witness ==
    /\ request.op = "set_material"
    /\ Target(request) \in DOMAIN PrevStore
    /\ PrevStore[Target(request)].material # request.materialID[1]
    /\ get_properties(Store, Target(request)) = << << 3, 1, 2, 3 >> >>
    /\ DOMAIN Store = Cells


(***************************************************************************)
(* The two stacks together                                                 *)
(***************************************************************************)
\* C27: the lengths of the history stack and of the redo stack together never
\* exceed MAX_HISTORY_SIZE, so a redo, which moves one delta from redo to
\* history, never makes the history stack longer than its capacity.
C27_StacksTogetherBounded ==
    /\ Len(history_stack) + Len(redo_stack) <= MAX_HISTORY_SIZE
    /\ request.op = "redo_request" => Len(history_stack) <= MAX_HISTORY_SIZE

\* C27 witness: after more deltas were recorded than the history stack holds,
\* a redo has just brought the history stack to its capacity while the redo
\* stack still held another delta before it.
C27_Witness ==
    /\ request.op = "redo_request"
    /\ result.status = "ok"
    /\ Cardinality(recorded) > MAX_HISTORY_SIZE
    /\ Len(prev_redo) >= 2
    /\ Len(history_stack) + Len(redo_stack) = MAX_HISTORY_SIZE


(***************************************************************************)
(* The partitions of one run, taken together                               *)
(***************************************************************************)
\* the stores PARTITIONS lists after the run
Listed == { PARTITIONS[i] : i \in 1..Len(PARTITIONS) }

\* C28: for every non-empty parent population and every partition size L >= 2,
\* even or odd, the 11 of create_voxel_db included, the partitions the run
\* lists are pairwise disjoint and together hold exactly the parent's voxels,
\* each with its parent row.
C28_PartitionsTileParent ==
    (Returned /\ request.partition_size >= 2)
        => /\ Cardinality(Listed) = Len(PARTITIONS)
           /\ \A p \in Listed, q \in Listed :
                  p # q => DOMAIN db[p] \cap DOMAIN db[q] = {}
           /\ UNION { DOMAIN db[p] : p \in Listed } = DOMAIN Parent
           /\ \A p \in Listed : \A c \in DOMAIN db[p] : db[p][c] = Parent[c]

\* C28 witness: a run with an odd partition size over the whole population
\* has listed three or more partitions.
C28_Witness ==
    /\ Returned
    /\ request.partition_size = 3
    /\ DOMAIN Parent = PartCells
    /\ Len(PARTITIONS) >= 3

\* the run with the partition size of create_voxel_db went through more than
\* one cube
C28_CreateSizeRun ==
    /\ Returned
    /\ request.partition_size = CREATE_PARTITION_SIZE
    /\ Len(Cubes) >= 2


(***************************************************************************)
(* History requests that end in an error                                   *)
(***************************************************************************)
\* C29: a history request that ends in an error leaves the history stack and
\* the redo stack exactly as they were before it; a delta moves between the
\* stacks only in a request that re-applied its voxels to the store.
C29_FailedRequestKeepsStacks ==
    request.op = "update_history"
        => /\ result.status # "200"
               => /\ history_stack = prev_history
                  /\ redo_stack = prev_redo
           /\ (history_stack # prev_history \/ redo_stack # prev_redo)
               => /\ result.status = "200"
                  /\ result.value # None
                  /\ \A v \in Range(Reapplied(request.action, result.value[1])) :
                         get_properties(db[RequestPath], << v[1], v[2], v[3] >>)
                             = << << v[4], v[5], v[6], v[7] >> >>


(***************************************************************************)
(* Writing on a coordinate that is already stored                          *)
(***************************************************************************)
\* the property columns of a stored row are the defaults
HasDefaults(row) ==
    /\ row.material = DEFAULT_MATERIAL
    /\ row.magnet_magnitude = DEFAULT_MAGNET
    /\ row.magnet_polar = DEFAULT_MAGNET
    /\ row.magnet_azimuth = DEFAULT_MAGNET

\* C30: upsert_many and add_voxel on a coordinate the store already holds
\* replace the whole row: afterwards it has the (x, y, z) supplied, material 1
\* and magnetization (0, 0, 0), whatever it held before; rows at other
\* coordinates are unchanged.
C30_ReplaceWholeRow ==
    /\ (request.op = "upsert_many" /\ result.status = "ok")
           => /\ \A key \in Keys(request.rows) :
                     LET r == LastFor(request.rows, key)
                     IN  /\ key \in DOMAIN Store
                         /\ << Store[key].x, Store[key].y, Store[key].z >>
                                = << r[4], r[5], r[6] >>
                         /\ HasDefaults(Store[key])
              /\ \A c \in DOMAIN PrevStore \ Keys(request.rows) :
                     c \in DOMAIN Store /\ Store[c] = PrevStore[c]
    /\ (request.op = "add_voxel" /\ Target(request) \in DOMAIN PrevStore)
           => /\ result.status = "ok"
              /\ Target(request) \in DOMAIN Store
              /\ HasDefaults(Store[Target(request)])
              /\ \A c \in DOMAIN PrevStore \ { Target(request) } :
                     c \in DOMAIN Store /\ Store[c] = PrevStore[c]

\* the part of C30 about upsert_many alone
C30_UpsertPart ==
    (request.op = "upsert_many" /\ result.status = "ok")
        => /\ \A key \in Keys(request.rows) :
                  key \in DOMAIN Store /\ HasDefaults(Store[key])
           /\ \A c \in DOMAIN PrevStore \ Keys(request.rows) :
                  c \in DOMAIN Store /\ Store[c] = PrevStore[c]

====
